---- MODULE Spec2Model ----
(***************************************************************************)
(* Model of app_complete.py: the drawing-analysis core                     *)
(* (detect_colors_in_pdf, analyze_pdf_content, compare_pdfs_ml,            *)
(* generate_engineering_checklist) and the Flask handlers that drive it    *)
(* (login, logout, check_session, upload, analyze).                        *)
(*                                                                         *)
(* A Python str is a sequence of one-character strings, so that `in`,      *)
(* split, strip, startswith, isdigit and f-string formatting are computed  *)
(* character by character as the interpreter computes them.                *)
(***************************************************************************)
EXTENDS Integers, Sequences, FiniteSets, TLC

----------------------------------------------------------------------------
(* Python str primitives                                                   *)

\* str.isdigit() on the ASCII alphabet of the model
Digits == {"0", "1", "2", "3", "4", "5", "6", "7", "8", "9"}

\* tuple('123456789'): the prefixes accepted by the note rule (no "0")
NoteDigits == {"1", "2", "3", "4", "5", "6", "7", "8", "9"}

\* the characters str.strip() and str.split() with no argument treat as space
Whitespace == {" ", "\t", "\n", "\r", "\f"}

\* the separator of pdf_content.split('\n')
NL == "\n"

\* `needle in hay` for two str
Contains(hay, needle) ==
    \E i \in 1..(Len(hay) - Len(needle) + 1) :
        \A j \in 1..Len(needle) : hay[i + j - 1] = needle[j]

\* any(char.isdigit() for char in s)
HasDigit(s) == \E i \in 1..Len(s) : s[i] \in Digits

\* s.strip()
Strip(s) ==
    LET keep == {i \in 1..Len(s) : s[i] \notin Whitespace}
    IN  IF keep = {} THEN <<>>
        ELSE LET lo == CHOOSE i \in keep : \A k \in keep : i <= k
                 hi == CHOOSE i \in keep : \A k \in keep : i >= k
             IN  SubSeq(s, lo, hi)

\* s.split()[-1]: the last whitespace-delimited token. s.split() is the empty
\* list when s holds no non-space character, and [-1] then raises IndexError
\* (modelled by the value IndexError).
IndexError == <<"IndexError">>
LastToken(s) ==
    LET keep == {i \in 1..Len(s) : s[i] \notin Whitespace}
    IN  IF keep = {} THEN IndexError
        ELSE LET hi == CHOOSE i \in keep : \A k \in keep : i >= k
                 sp == {i \in 1..hi : s[i] \in Whitespace}
                 lo == IF sp = {} THEN 1
                       ELSE 1 + (CHOOSE i \in sp : \A k \in sp : i >= k)
             IN  SubSeq(s, lo, hi)

\* s.split('\n'): always at least one piece
RECURSIVE SplitLines(_)
SplitLines(s) ==
    LET nls == {i \in 1..Len(s) : s[i] = NL}
    IN  IF nls = {} THEN <<s>>
        ELSE LET k == CHOOSE i \in nls : \A m \in nls : i <= m
             IN  <<SubSeq(s, 1, k - 1)>> \o SplitLines(SubSeq(s, k + 1, Len(s)))

\* '\n'.join(lines)
RECURSIVE JoinLines(_)
JoinLines(lines) ==
    IF lines = <<>> THEN <<>>
    ELSE IF Len(lines) = 1 THEN lines[1]
    ELSE lines[1] \o <<NL>> \o JoinLines(Tail(lines))

\* str(n) / f"{n}" for an int: decimal digits, "-" for a negative number
DigitChar(k) ==
    CASE k = 0 -> "0" [] k = 1 -> "1" [] k = 2 -> "2" [] k = 3 -> "3" [] k = 4 -> "4"
      [] k = 5 -> "5" [] k = 6 -> "6" [] k = 7 -> "7" [] k = 8 -> "8" [] k = 9 -> "9"
RECURSIVE NatStr(_)
NatStr(n) == IF n < 10 THEN <<DigitChar(n)>> ELSE NatStr(n \div 10) \o <<DigitChar(n % 10)>>
IntStr(n) == IF n < 0 THEN <<"-">> \o NatStr(-n) ELSE NatStr(n)

\* the elements of a sequence; the sequence filtered as a list comprehension
Range(s) == {s[i] : i \in 1..Len(s)}

\* every enumeration of a finite set without repetition: the orders in which
\* `for x in a_set` may visit a set of str (str hashes are salted per process)
Orders(S) ==
    {o \in [1..Cardinality(S) -> S] : \A i, j \in 1..Cardinality(S) : o[i] = o[j] => i = j}

----------------------------------------------------------------------------
(* String literals of the source                                           *)

TOK_MM == <<"M", "M">>
TOK_THK == <<"T", "H", "K">>
TOK_X == <<"X">>
TOK_GRADE == <<"G", "R", "A", "D", "E">>
TOK_STEEL == <<"S", "T", "E", "E", "L">>
TOK_CONCRETE == <<"C", "O", "N", "C", "R", "E", "T", "E">>
TOK_REINFORCEMENT == <<"R", "E", "I", "N", "F", "O", "R", "C", "E", "M", "E", "N", "T">>
TOK_NOTE == <<"N", "O", "T", "E">>
TOK_SP_d == <<" ", "d">>
TOK_SP_D == <<" ", "D">>
TOK_Bold == <<"B", "o", "l", "d">>
TOK_d == <<"d">>
TOK_D == <<"D">>
FMT_NewDimension == <<"N", "e", "w", " ", "d", "i", "m", "e", "n", "s", "i", "o", "n", ":", " ">>
FMT_RemovedDimension ==
    <<"R", "e", "m", "o", "v", "e", "d", " ", "d", "i", "m", "e", "n", "s", "i", "o", "n", ":",
      " ">>
FMT_Resolved == <<"R", "e", "s", "o", "l", "v", "e", "d", " ">>
FMT_MissingDimensions ==
    <<" ", "m", "i", "s", "s", "i", "n", "g", " ", "d", "i", "m", "e", "n", "s", "i", "o", "n",
      "s">>
FMT_MarkupFound ==
    <<"D", "e", "s", "i", "g", "n", "e", "r", " ", "m", "a", "r", "k", "u", "p", ":", " ",
      "\"", "B", "o", "l", "d", "\"", " ", "a", "n", "n", "o", "t", "a", "t", "i", "o", "n",
      " ", "f", "o", "u", "n", "d">>
FMT_BoldApplied ==
    <<"B", "o", "l", "d", " ", "f", "o", "r", "m", "a", "t", "t", "i", "n", "g", " ", "a", "p",
      "p", "l", "i", "e", "d", " ", "t", "o", " ", "d", "i", "m", "e", "n", "s", "i", "o", "n",
      "s">>
FMT_NoMissing ==
    <<"N", "o", " ", "m", "i", "s", "s", "i", "n", "g", " ", "d", "i", "m", "e", "n", "s", "i",
      "o", "n", " ", "v", "a", "l", "u", "e", "s", " ", "d", "e", "t", "e", "c", "t", "e", "d">>
FMT_DimensionsFound ==
    <<" ", "d", "i", "m", "e", "n", "s", "i", "o", "n", "s", " ", "f", "o", "u", "n", "d">>
FMT_Only == <<"O", "n", "l", "y", " ">>
FMT_SpecificationsProvided ==
    <<" ", "s", "p", "e", "c", "i", "f", "i", "c", "a", "t", "i", "o", "n", "s", " ", "p", "r",
      "o", "v", "i", "d", "e", "d">>
FMT_ChangesFound == <<" ", "c", "h", "a", "n", "g", "e", "s", " ", "f", "o", "u", "n", "d">>
FMT_NoChanges ==
    <<"F", "i", "l", "e", "s", " ", "a", "p", "p", "e", "a", "r", " ", "i", "d", "e", "n", "t",
      "i", "c", "a", "l", " ", "o", "r", " ", "n", "o", " ", "c", "h", "a", "n", "g", "e", "s",
      " ", "m", "a", "d", "e">>
FMT_QualityScore == <<"Q", "u", "a", "l", "i", "t", "y", " ", "S", "c", "o", "r", "e", ":", " ">>
FMT_Percent == <<"%">>

----------------------------------------------------------------------------
(* Input documents                                                         *)

LINE_BULK == <<"1", " ", "S", "T", "E", "E", "L", " ", "X">>
LINE_MM == <<"M", "M">>
LINE_STEEL_X == <<"S", "T", "E", "E", "L", " ", "X">>
LINE_MM_PAD == <<" ", "M", "M", " ">>
LINE_5d == <<"5", " ", "d">>
LINE_THK_D == <<"T", "H", "K", " ", "D">>
LINE_5d12MM == <<"5", " ", "d", " ", "1", "2", "M", "M">>
LINE_Bold == <<"B", "o", "l", "d">>
LINE_BLANK == <<" ">>
LINE_GRADE50 == <<"G", "R", "A", "D", "E", " ", "5", "0">>
LINE_STEEL_REBAR == <<"S", "T", "E", "E", "L", " ", "R", "E", "B", "A", "R">>
LINE_NOTE_verify == <<"N", "O", "T", "E", ":", " ", "v", "e", "r", "i", "f", "y">>
LINE_10THKMM == <<"1", "0", " ", "T", "H", "K", " ", "M", "M">>

\* the largest number of repetitions of a bulk line in an input document
MaxBulk == 11

\* n copies of one line
Repeat(line, n) == [i \in 1..n |-> line]

\* lines repeated to drive the counts across the score thresholds
BulkLines == {LINE_BULK, LINE_MM, LINE_STEEL_X}

\* line groups that follow the bulk lines of a document
Tails ==
    { <<>>,
      <<LINE_MM_PAD, LINE_MM>>,
      <<LINE_5d, LINE_THK_D>>,
      <<LINE_5d>>,
      <<LINE_Bold, LINE_BLANK, LINE_5d12MM>> }

\* scenario B of the specification
ScenarioB_before == JoinLines(<<LINE_5d, LINE_GRADE50, LINE_STEEL_REBAR>>)
ScenarioB_after ==
    JoinLines(<<LINE_5d12MM, LINE_GRADE50, LINE_STEEL_REBAR, LINE_NOTE_verify>>)

\* the three scenario documents of the specification and a single blank line
ScenarioDocs ==
    { JoinLines(<<LINE_10THKMM, LINE_GRADE50>>),
      ScenarioB_before,
      ScenarioB_after,
      LINE_BLANK }

\* scenario C of the specification: twelve dimension lines, and the same
\* twelve followed by six specification lines. The twelve lines alternate
\* between "X1" and "X2": k distinct values would be visited in k! orders.
ScenarioC_lines == [i \in 1..12 |-> TOK_X \o NatStr(1 + (i % 2))]
ScenarioC_before == JoinLines(ScenarioC_lines)
ScenarioC_after == JoinLines(ScenarioC_lines \o Repeat(LINE_STEEL_REBAR, 6))

\* the texts handed to the analysis
Docs ==
    {JoinLines(Repeat(b, n) \o t) : b \in BulkLines, n \in 0..MaxBulk, t \in Tails}
        \cup ScenarioDocs \cup {ScenarioC_before, ScenarioC_after}

----------------------------------------------------------------------------
(* detect_colors_in_pdf                                                    *)

\* the indices 1..Len(s) as a list, for enumerate(lines, 1)
Indices(s) == [i \in 1..Len(s) |-> i]

\* any(dim in line for dim in ['d', 'D', 'MM', 'THK'])
HasDimensionMark(line) ==
    \/ Contains(line, TOK_d)
    \/ Contains(line, TOK_D)
    \/ Contains(line, TOK_MM)
    \/ Contains(line, TOK_THK)

detect_colors_in_pdf(pdf_content) ==
    LET lines == SplitLines(pdf_content)
        IsIssue(i) ==
            /\ HasDimensionMark(lines[i])
            /\ Strip(lines[i]) # <<>>
            /\ Len(Strip(lines[i])) < 50
        IsBold(i) == HasDigit(lines[i])
        issues == SelectSeq(Indices(lines), IsIssue)
        bolds  == SelectSeq(Indices(lines), IsBold)
    IN  [ red_markups      |-> <<>>,
          bold_changes     |->
              [k \in 1..Len(bolds) |->
                  [line |-> bolds[k], text |-> Strip(lines[bolds[k]]),
                   should_be_bold |-> TRUE]],
          dimension_issues |->
              [k \in 1..Len(issues) |->
                  [line |-> issues[k], text |-> Strip(lines[issues[k]]),
                   type |-> "dimension"]],
          annotations      |-> <<>> ]

----------------------------------------------------------------------------
(* analyze_pdf_content                                                     *)

\* IsRetained that tests the line itself (`if l` for `if l.strip()`)
IsRetained_unstripped(line) == line # <<>>

\* l.strip() is truthy: the line is kept
IsRetained(line) == Strip(line) # <<>>

\* 'MM' in line or 'THK' in line or 'X' in line
IsDimension(line) ==
    Contains(line, TOK_MM) \/ Contains(line, TOK_THK) \/ Contains(line, TOK_X)

\* any(word in line for word in ['GRADE', 'STEEL', 'CONCRETE', 'REINFORCEMENT'])
IsSpecification(line) ==
    \/ Contains(line, TOK_GRADE)
    \/ Contains(line, TOK_STEEL)
    \/ Contains(line, TOK_CONCRETE)
    \/ Contains(line, TOK_REINFORCEMENT)

\* line.strip().startswith(tuple('123456789')) or 'NOTE' in line
IsNote(line) ==
    \/ (Strip(line) # <<>> /\ Strip(line)[1] \in NoteDigits)
    \/ Contains(line, TOK_NOTE)

\* IsMissingData that looks for a digit in the whole line
IsMissingData_whole_line(line) ==
    /\ Contains(line, TOK_SP_d) \/ Contains(line, TOK_SP_D)
    /\ ~HasDigit(line)

\* (' d' in line or ' D' in line) and
\* not any(char.isdigit() for char in line.split()[-1])
IsMissingData(line) ==
    /\ Contains(line, TOK_SP_d) \/ Contains(line, TOK_SP_D)
    /\ ~HasDigit(LastToken(line))

\* analyze_pdf_content raises: line.split()[-1] is reached on a retained line
\* that has no token
RaisesIndexError(pdf_content) ==
    \E line \in Range(SelectSeq(SplitLines(pdf_content), IsRetained)) :
        /\ Contains(line, TOK_SP_d) \/ Contains(line, TOK_SP_D)
        /\ LastToken(line) = IndexError

\* Stripped that appends a text only when it is not in the list yet
Stripped_distinct(lines) ==
    LET IsFirst(i) == \A j \in 1..(i - 1) : Strip(lines[j]) # Strip(lines[i])
        first == SelectSeq(Indices(lines), IsFirst)
    IN  [k \in 1..Len(first) |-> Strip(lines[first[k]])]

\* the stripped text of the lines a rule selects, in document order
Stripped(lines) == [i \in 1..Len(lines) |-> Strip(lines[i])]

\* quality_score with the notes bonus of 15 instead of 10
quality_score_notes15(dimensions, specifications, notes, missing_data) ==
    LET score == 50
                 + (IF Len(dimensions) > 10 THEN 15 ELSE 0)
                 + (IF Len(specifications) > 5 THEN 15 ELSE 0)
                 + (IF Len(notes) > 3 THEN 15 ELSE 0)
                 + (IF Len(missing_data) = 0 THEN 10 ELSE 0)
    IN  IF score < 100 THEN score ELSE 100

\* quality_score with the dimension bonus granted from 10 entries on (>= for >)
quality_score_ge(dimensions, specifications, notes, missing_data) ==
    LET score == 50
                 + (IF Len(dimensions) >= 10 THEN 15 ELSE 0)
                 + (IF Len(specifications) > 5 THEN 15 ELSE 0)
                 + (IF Len(notes) > 3 THEN 10 ELSE 0)
                 + (IF Len(missing_data) = 0 THEN 10 ELSE 0)
    IN  IF score < 100 THEN score ELSE 100

\* the score computed from the four collections
quality_score(dimensions, specifications, notes, missing_data) ==
    LET score == 50
                 + (IF Len(dimensions) > 10 THEN 15 ELSE 0)
                 + (IF Len(specifications) > 5 THEN 15 ELSE 0)
                 + (IF Len(notes) > 3 THEN 10 ELSE 0)
                 + (IF Len(missing_data) = 0 THEN 10 ELSE 0)
    IN  IF score < 100 THEN score ELSE 100

analyze_pdf_content(pdf_content) ==
    LET lines          == SelectSeq(SplitLines(pdf_content), IsRetained)
        dimensions     == Stripped(SelectSeq(lines, IsDimension))
        specifications == Stripped(SelectSeq(lines, IsSpecification))
        notes          == Stripped(SelectSeq(lines, IsNote))
        flagged        == SelectSeq(lines, IsMissingData)
        missing_data   ==
            [i \in 1..Len(flagged) |->
                [issue |-> "Missing dimension value", text |-> Strip(flagged[i])]]
    IN  [ total_lines    |-> Len(lines),
          dimensions     |-> dimensions,
          specifications |-> specifications,
          notes          |-> notes,
          missing_data   |-> missing_data,
          quality_score  |->
              quality_score(dimensions, specifications, notes, missing_data) ]

----------------------------------------------------------------------------
(* compare_pdfs_ml                                                         *)

\* hashlib.md5(content.encode()).hexdigest(): two texts of Docs have the same
\* digest exactly when they are the same text (no MD5 collision among them)
md5_hexdigest(content) == [md5 |-> content]

\* one change record per element, in the order the set is visited
AddedRecords(order) ==
    [i \in 1..Len(order) |->
        [type |-> "DIMENSION_ADDED", description |-> FMT_NewDimension \o order[i],
         severity |-> "HIGH"]]

RemovedRecords(order) ==
    [i \in 1..Len(order) |->
        [type |-> "DIMENSION_REMOVED", description |-> FMT_RemovedDimension \o order[i],
         severity |-> "MEDIUM"]]

\* ResolvedRecords that also fires on equal counts (>= for >)
ResolvedRecords_ge(before_missing, after_missing) ==
    IF before_missing >= after_missing
    THEN << [type |-> "MISSING_DATA_RESOLVED",
             description |-> FMT_Resolved \o IntStr(before_missing - after_missing)
                                 \o FMT_MissingDimensions,
             severity |-> "GOOD"] >>
    ELSE <<>>

\* the record of the missing-data rule, as a list of zero or one record
ResolvedRecords(before_missing, after_missing) ==
    IF before_missing > after_missing
    THEN << [type |-> "MISSING_DATA_RESOLVED",
             description |-> FMT_Resolved \o IntStr(before_missing - after_missing)
                                 \o FMT_MissingDimensions,
             severity |-> "GOOD"] >>
    ELSE <<>>

\* the record of the 'Bold' rule
MarkupRecords(before_content, after_content) ==
    IF Contains(after_content, TOK_Bold) /\ ~Contains(before_content, TOK_Bold)
    THEN << [type |-> "MARKUP_DETECTED", description |-> FMT_MarkupFound,
             severity |-> "INFO"] >>
    ELSE <<>>

\* FormattingRecords that also fires on equal counts (>= for >)
FormattingRecords_ge(before_colors, after_colors) ==
    IF Len(after_colors.bold_changes) >= Len(before_colors.bold_changes)
    THEN << [type |-> "FORMATTING_CHANGE", description |-> FMT_BoldApplied,
             severity |-> "INFO"] >>
    ELSE <<>>

\* the record of the bold-candidate rule
FormattingRecords(before_colors, after_colors) ==
    IF Len(after_colors.bold_changes) > Len(before_colors.bold_changes)
    THEN << [type |-> "FORMATTING_CHANGE", description |-> FMT_BoldApplied,
             severity |-> "INFO"] >>
    ELSE <<>>

\* IdenticalResult that also reports a change count
IdenticalResult_counted ==
    [ identical      |-> TRUE,
      message        |-> "IDENTICAL FILES DETECTED",
      recommendation |-> "BEFORE file should be ENGINEER COMMENTED version. AFTER file should be DESIGNER UPDATED version.",
      changes        |-> <<>>,
      total_changes  |-> 0 ]

\* the identical-files result
IdenticalResult ==
    [ identical      |-> TRUE,
      message        |-> "IDENTICAL FILES DETECTED",
      recommendation |-> "BEFORE file should be ENGINEER COMMENTED version. AFTER file should be DESIGNER UPDATED version.",
      changes        |-> <<>> ]

\* VisitOrders over the lists instead of the sets: duplicates are kept
VisitOrders_list(dims, other_dims) ==
    LET IsNew(d) == d \notin Range(other_dims) IN {SelectSeq(dims, IsNew)}

\* the orders in which `for dim in after_dims - before_dims` may visit the
\* difference of set(dims) and set(other_dims)
VisitOrders(dims, other_dims) == Orders(Range(dims) \ Range(other_dims))

\* changes_in_order with the formatting rule run before the markup rule
changes_in_order_swapped(added, removed, resolved, markup, formatting) ==
    added \o removed \o resolved \o formatting \o markup

\* the changes list after the five groups of appends, in program order
changes_in_order(added, removed, resolved, markup, formatting) ==
    added \o removed \o resolved \o markup \o formatting

\* quality_improvement that never reports a loss
quality_improvement_clamped(before_analysis, after_analysis) ==
    IF after_analysis.quality_score > before_analysis.quality_score
    THEN after_analysis.quality_score - before_analysis.quality_score
    ELSE 0

\* after_analysis['quality_score'] - before_analysis['quality_score']
quality_improvement(before_analysis, after_analysis) ==
    after_analysis.quality_score - before_analysis.quality_score

\* the results compare_pdfs_ml may return: one per order in which the two set
\* differences are visited
compare_pdfs_ml(before_content, after_content) ==
    IF md5_hexdigest(before_content) = md5_hexdigest(after_content)
    THEN {IdenticalResult}
    ELSE
        LET before_analysis == analyze_pdf_content(before_content)
            after_analysis  == analyze_pdf_content(after_content)
            before_colors   == detect_colors_in_pdf(before_content)
            after_colors    == detect_colors_in_pdf(after_content)
            resolved        == ResolvedRecords(Len(before_analysis.missing_data),
                                               Len(after_analysis.missing_data))
            markup          == MarkupRecords(before_content, after_content)
            formatting      == FormattingRecords(before_colors, after_colors)
        IN  { LET changes == changes_in_order(AddedRecords(added), RemovedRecords(removed),
                                              resolved, markup, formatting)
              IN  [ identical           |-> FALSE,
                    before_analysis     |-> before_analysis,
                    after_analysis      |-> after_analysis,
                    changes             |-> changes,
                    total_changes       |-> Len(changes),
                    quality_improvement |->
                        quality_improvement(before_analysis, after_analysis) ]
              : added \in VisitOrders(after_analysis.dimensions,
                                      before_analysis.dimensions),
                removed \in VisitOrders(before_analysis.dimensions,
                                        after_analysis.dimensions) }

----------------------------------------------------------------------------
(* generate_engineering_checklist                                          *)

\* the empty dict {}
EmptyDict == [k \in {} |-> k]

\* d.get(key, default)
Get(d, key, default) == IF key \in DOMAIN d THEN d[key] ELSE default

\* critical_items whose PASS item is appended without the else
critical_items_no_else(after) ==
    LET missing_data == Get(after, "missing_data", <<>>)
    IN  [i \in 1..Len(missing_data) |->
            [status |-> "FAIL", item |-> "Missing Dimension Value",
             details |-> missing_data[i].text]]
            \o << [status |-> "PASS", item |-> "All Dimensions Specified",
                   details |-> FMT_NoMissing] >>

\* the critical_items list: one FAIL per missing-data entry, else one PASS
critical_items(after) ==
    LET missing_data == Get(after, "missing_data", <<>>)
    IN  IF missing_data # <<>>
        THEN [i \in 1..Len(missing_data) |->
                 [status |-> "FAIL", item |-> "Missing Dimension Value",
                  details |-> missing_data[i].text]]
        ELSE << [status |-> "PASS", item |-> "All Dimensions Specified",
                 details |-> FMT_NoMissing] >>

\* dimensions_check that appends nothing below the threshold
dimensions_check_no_warning(after) ==
    LET dim_count == Len(Get(after, "dimensions", <<>>))
    IN  IF dim_count > 10
        THEN << [status |-> "PASS", item |-> "Adequate Dimensions",
                 details |-> IntStr(dim_count) \o FMT_DimensionsFound] >>
        ELSE <<>>

\* the dimensions list
dimensions_check(after) ==
    LET dim_count == Len(Get(after, "dimensions", <<>>))
    IN  IF dim_count > 10
        THEN << [status |-> "PASS", item |-> "Adequate Dimensions",
                 details |-> IntStr(dim_count) \o FMT_DimensionsFound] >>
        ELSE << [status |-> "WARNING", item |-> "Limited Dimensions",
                 details |-> FMT_Only \o IntStr(dim_count) \o FMT_DimensionsFound] >>

\* specifications_check that fires from five entries on (>= for >)
specifications_check_ge(after) ==
    LET spec_count == Len(Get(after, "specifications", <<>>))
    IN  IF spec_count >= 5
        THEN << [status |-> "PASS", item |-> "Material Specifications",
                 details |-> IntStr(spec_count) \o FMT_SpecificationsProvided] >>
        ELSE <<>>

\* the specifications list
specifications_check(after) ==
    LET spec_count == Len(Get(after, "specifications", <<>>))
    IN  IF spec_count > 5
        THEN << [status |-> "PASS", item |-> "Material Specifications",
                 details |-> IntStr(spec_count) \o FMT_SpecificationsProvided] >>
        ELSE <<>>

\* annotations_check that needs more than one change to pass
annotations_check_gt1(analysis_result) ==
    LET total_changes == Get(analysis_result, "total_changes", 0)
    IN  IF total_changes > 1
        THEN << [status |-> "PASS", item |-> "Designer Updates Detected",
                 details |-> IntStr(total_changes) \o FMT_ChangesFound] >>
        ELSE << [status |-> "FAIL", item |-> "No Updates Detected",
                 details |-> FMT_NoChanges] >>

\* the annotations list
annotations_check(analysis_result) ==
    LET total_changes == Get(analysis_result, "total_changes", 0)
    IN  IF total_changes > 0
        THEN << [status |-> "PASS", item |-> "Designer Updates Detected",
                 details |-> IntStr(total_changes) \o FMT_ChangesFound] >>
        ELSE << [status |-> "FAIL", item |-> "No Updates Detected",
                 details |-> FMT_NoChanges] >>

\* completeness_check that passes only above 80 (> for >=)
completeness_check_gt(after) ==
    LET score == Get(after, "quality_score", 0)
    IN  IF score > 80
        THEN << [status |-> "PASS", item |-> "Drawing Completeness",
                 details |-> FMT_QualityScore \o IntStr(score) \o FMT_Percent] >>
        ELSE << [status |-> "WARNING", item |-> "Drawing Needs Improvement",
                 details |-> FMT_QualityScore \o IntStr(score) \o FMT_Percent] >>

\* the completeness list
completeness_check(after) ==
    LET score == Get(after, "quality_score", 0)
    IN  IF score >= 80
        THEN << [status |-> "PASS", item |-> "Drawing Completeness",
                 details |-> FMT_QualityScore \o IntStr(score) \o FMT_Percent] >>
        ELSE << [status |-> "WARNING", item |-> "Drawing Needs Improvement",
                 details |-> FMT_QualityScore \o IntStr(score) \o FMT_Percent] >>

generate_engineering_checklist(analysis_result) ==
    LET before == Get(analysis_result, "before_analysis", EmptyDict)
        after  == Get(analysis_result, "after_analysis", EmptyDict)
    IN  [ critical_items |-> critical_items(after),
          dimensions     |-> dimensions_check(after),
          specifications |-> specifications_check(after),
          annotations    |-> annotations_check(analysis_result),
          completeness   |-> completeness_check(after) ]

----------------------------------------------------------------------------
(* Flask application: users, requests                                      *)

\* werkzeug generate_password_hash / check_password_hash: a stored hash
\* accepts exactly the password it was made from
generate_password_hash(password) == [pbkdf2 |-> password]
check_password_hash(pwhash, password) == pwhash = generate_password_hash(password)

USERS ==
    [ engineer |-> [password |-> generate_password_hash("engineer123"),
                    name |-> "Senior Engineer", role |-> "engineer"],
      designer |-> [password |-> generate_password_hash("designer123"),
                    name |-> "Design Reviewer", role |-> "designer"] ]

UPLOAD_FOLDER == "uploads"
REPORT_FOLDER == "reports"

\* request inputs
Usernames == {"engineer", "designer", "guest"}
Passwords == {"engineer123", "designer123", "letmein"}
FileTypes == {"before", "after"}
NAME_PDF == <<"a", ".", "p", "d", "f">>
NAME_TXT == <<"a", ".", "t", "x", "t">>
ClientFilenames == {NAME_PDF, NAME_TXT}

\* the values datetime.now().strftime('%Y%m%d_%H%M%S') takes while the
\* requests of a run are served
Times == {"20261102_083000"}

\* a byte that is not valid UTF-8
BadByte == "0xFF"

\* the uploaded file bodies: four texts and one with an undecodable byte
UploadBodies == ScenarioDocs \cup {<<BadByte>> \o LINE_BLANK}

\* bytes.decode('utf-8', errors='ignore'): undecodable bytes are dropped
IsDecodable(byte) == byte # BadByte
Decode(bytes) == SelectSeq(bytes, IsDecodable)

\* s.endswith(suffix)
EndsWith(s, suffix) ==
    /\ Len(s) >= Len(suffix)
    /\ SubSeq(s, Len(s) - Len(suffix) + 1, Len(s)) = suffix

\* the suffix '.pdf'
EXT_PDF == <<".", "p", "d", "f">>

\* f"{file_type}_{time}_{file.filename}" under UPLOAD_FOLDER
UploadPath(file_type, time, filename) ==
    [folder |-> UPLOAD_FOLDER, type |-> file_type, time |-> time, name |-> filename]

\* f"Analysis_Report_{time}.html"
ReportFilename(time) == [prefix |-> "Analysis_Report", time |-> time, ext |-> "html"]

\* the paths analyze may be asked to read: every upload path and one that
\* no upload creates
StoredPaths == {UploadPath(t, m, f) : t \in FileTypes, m \in Times, f \in ClientFilenames}
RequestPaths ==
    StoredPaths \cup {[folder |-> UPLOAD_FOLDER, type |-> "none", time |-> "none",
                       name |-> <<"b", ".", "p", "d", "f">>]}

\* generate_analysis_report: the HTML is rendered from the result and the
\* checklist alone; the model keeps what it was rendered from
generate_analysis_report(result, list) == [analysis |-> result, checklist |-> list]

\* session[key] = value
DictSet(d, key, value) ==
    [k \in DOMAIN d \cup {key} |-> IF k = key THEN value ELSE d[k]]

\* jsonify(body), status
Respond(status, body) == [status |-> status, body |-> body]

----------------------------------------------------------------------------
(* State                                                                   *)

VARIABLES
    before_content,   \* analysis run: the text of the BEFORE revision
    after_content,    \* analysis run: the text of the AFTER revision
    analysis_result,  \* analysis run: what compare_pdfs_ml returned
    checklist,        \* analysis run: what generate_engineering_checklist returned
    pc,               \* analysis run: "input" before the run, "done" after it
    session,          \* application: the Flask session of the client
    uploads,          \* application: the files under UPLOAD_FOLDER, path -> bytes
    reports,          \* application: the files under REPORT_FOLDER
    response          \* application: the response to the last request

run_vars == <<before_content, after_content, analysis_result, checklist, pc>>
app_vars == <<session, uploads, reports, response>>
vars == <<before_content, after_content, analysis_result, checklist, pc,
          session, uploads, reports, response>>

\* the application as it starts: nobody logged in, both folders empty
AppInit ==
    /\ session = EmptyDict
    /\ uploads = EmptyDict
    /\ reports = {}
    /\ response = Respond(0, EmptyDict)

----------------------------------------------------------------------------
(* Specification of one analysis run: compare_pdfs_ml, then the checklist  *)

Init ==
    /\ before_content \in Docs
    /\ after_content \in Docs
    /\ analysis_result = EmptyDict
    /\ checklist = EmptyDict
    /\ pc = "input"
    /\ AppInit

\* lines 1138-1141 of analyze on one pair of texts
RunAnalysis ==
    /\ pc = "input"
    /\ \E r \in compare_pdfs_ml(before_content, after_content) :
           /\ analysis_result' = r
           /\ checklist' = generate_engineering_checklist(r)
    /\ pc' = "done"
    /\ UNCHANGED <<before_content, after_content>>
    /\ UNCHANGED app_vars

Next == RunAnalysis

Spec == Init /\ [][Next]_vars

----------------------------------------------------------------------------
(* Specification of the application: the request handlers                  *)

InitWeb ==
    /\ before_content = <<>>
    /\ after_content = <<>>
    /\ analysis_result = EmptyDict
    /\ checklist = EmptyDict
    /\ pc = "web"
    /\ AppInit

\* NotAuthenticated that lets every request through
NotAuthenticated_never(s) == FALSE

\* 'user' not in session, the first test of upload and of analyze
NotAuthenticated(s) == "user" \notin DOMAIN s

\* login that clears the session when it rejects the credentials
login_clears_on_failure ==
    /\ \E username \in Usernames, password \in Passwords :
           IF username \in DOMAIN USERS
              /\ check_password_hash(USERS[username].password, password)
           THEN /\ session' =
                       DictSet(DictSet(DictSet(session, "user", username),
                                       "name", USERS[username].name),
                               "role", USERS[username].role)
                /\ response' =
                       Respond(200, [success |-> TRUE,
                                     user |-> [username |-> username,
                                               name |-> USERS[username].name,
                                               role |-> USERS[username].role]])
           ELSE /\ session' = EmptyDict
                /\ response' =
                       Respond(401, [success |-> FALSE, message |-> "Invalid credentials"])
    /\ UNCHANGED <<uploads, reports>>
    /\ UNCHANGED run_vars

\* POST /api/login
login ==
    /\ \E username \in Usernames, password \in Passwords :
           IF username \in DOMAIN USERS
              /\ check_password_hash(USERS[username].password, password)
           THEN /\ session' =
                       DictSet(DictSet(DictSet(session, "user", username),
                                       "name", USERS[username].name),
                               "role", USERS[username].role)
                /\ response' =
                       Respond(200, [success |-> TRUE,
                                     user |-> [username |-> username,
                                               name |-> USERS[username].name,
                                               role |-> USERS[username].role]])
           ELSE /\ session' = session
                /\ response' =
                       Respond(401, [success |-> FALSE, message |-> "Invalid credentials"])
    /\ UNCHANGED <<uploads, reports>>
    /\ UNCHANGED run_vars

\* POST /api/logout
logout ==
    /\ session' = EmptyDict
    /\ response' = Respond(200, [success |-> TRUE])
    /\ UNCHANGED <<uploads, reports>>
    /\ UNCHANGED run_vars

\* GET /api/check-session; session['name'] of a session without the key
\* raises KeyError, which Flask answers with 500
check_session ==
    /\ response' =
           IF "user" \in DOMAIN session
           THEN IF {"name", "role"} \subseteq DOMAIN session
                THEN Respond(200, [logged_in |-> TRUE,
                                   user |-> [username |-> session["user"],
                                             name |-> session["name"],
                                             role |-> session["role"]]])
                ELSE Respond(500, [error |-> "KeyError"])
           ELSE Respond(200, [logged_in |-> FALSE])
    /\ UNCHANGED <<session, uploads, reports>>
    /\ UNCHANGED run_vars

\* POST /api/upload
upload ==
    /\ \E has_file \in BOOLEAN, filename \in ClientFilenames, file_type \in FileTypes,
          body \in UploadBodies, now \in Times :
           IF NotAuthenticated(session)
           THEN /\ response' =
                       Respond(401, [success |-> FALSE, message |-> "Not authenticated"])
                /\ uploads' = uploads
           ELSE IF ~has_file
           THEN /\ response' =
                       Respond(400, [success |-> FALSE, message |-> "No file uploaded"])
                /\ uploads' = uploads
           ELSE IF ~EndsWith(filename, EXT_PDF)
           THEN /\ response' =
                       Respond(400, [success |-> FALSE, message |-> "Only PDF files allowed"])
                /\ uploads' = uploads
           ELSE /\ uploads' = DictSet(uploads, UploadPath(file_type, now, filename), body)
                /\ response' =
                       Respond(200, [success |-> TRUE,
                                     filename |-> UploadPath(file_type, now, filename),
                                     size |-> Len(body)])
    /\ UNCHANGED <<session, reports>>
    /\ UNCHANGED run_vars

\* POST /api/analyze; open() of a path that is not there raises, and the
\* handler's except clause answers 500
analyze ==
    /\ \E before_file \in RequestPaths, after_file \in RequestPaths, now \in Times :
           IF NotAuthenticated(session)
           THEN /\ response' =
                       Respond(401, [success |-> FALSE, message |-> "Not authenticated"])
                /\ reports' = reports
           ELSE IF before_file \notin DOMAIN uploads \/ after_file \notin DOMAIN uploads
           THEN /\ response' =
                       Respond(500, [success |-> FALSE, message |-> "Analysis failed"])
                /\ reports' = reports
           ELSE \E result \in compare_pdfs_ml(Decode(uploads[before_file]),
                                              Decode(uploads[after_file])) :
                    LET list        == generate_engineering_checklist(result)
                        report_html == generate_analysis_report(result, list)
                    IN  /\ reports' = reports \cup {ReportFilename(now)}
                        /\ response' =
                               Respond(200, [success |-> TRUE,
                                             analysis |-> result,
                                             checklist |-> list,
                                             report_url |-> ReportFilename(now),
                                             report_filename |-> ReportFilename(now)])
    /\ UNCHANGED <<session, uploads>>
    /\ UNCHANGED run_vars

NextWeb == login \/ logout \/ check_session \/ upload \/ analyze

SpecWeb == InitWeb /\ [][NextWeb]_vars

----------------------------------------------------------------------------
(* Properties                                                              *)

\* the analysis run has finished
Done == pc = "done"

\* the analysis run has finished with the full (non-identical) result
Full == Done /\ ~analysis_result.identical

\* the change records of one type, in the order they occur
RecordsOfType(changes, type) ==
    LET HasType(c) == c.type = type IN SelectSeq(changes, HasType)

\* the values named by the descriptions of the records of one type
ValuesOfType(changes, type, prefix) ==
    {SubSeq(c.description, Len(prefix) + 1, Len(c.description)) :
        c \in Range(RecordsOfType(changes, type))}

\* the position of a change type in the generation order
TypeRank(type) ==
    CASE type = "DIMENSION_ADDED" -> 1
      [] type = "DIMENSION_REMOVED" -> 2
      [] type = "MISSING_DATA_RESOLVED" -> 3
      [] type = "MARKUP_DETECTED" -> 4
      [] type = "FORMATTING_CHANGE" -> 5

\* the score the specification prescribes for four collections
PrescribedScore(a) ==
    LET sum == 50 + 15 * (IF Len(a.dimensions) > 10 THEN 1 ELSE 0)
                  + 15 * (IF Len(a.specifications) > 5 THEN 1 ELSE 0)
                  + 10 * (IF Len(a.notes) > 3 THEN 1 ELSE 0)
                  + 10 * (IF Len(a.missing_data) = 0 THEN 1 ELSE 0)
    IN  IF sum <= 100 THEN sum ELSE 100

\* C1: the quality_score of each analysed document lies in 0..100 and equals
\* min(100, 50 + 15[dimensions > 10] + 15[specifications > 5] + 10[notes > 3]
\* + 10[missing_data = 0]) of the collections of the same result.
C1_QualityScoreFormula ==
    Full =>
        \A a \in {analysis_result.before_analysis, analysis_result.after_analysis} :
            /\ a.quality_score \in 0..100
            /\ a.quality_score = PrescribedScore(a)

\* C1 witness: a run whose AFTER document earns every bonus and whose BEFORE
\* document earns none
C1_Witness ==
    /\ Full
    /\ analysis_result.after_analysis.quality_score = 100
    /\ Len(analysis_result.after_analysis.dimensions) > 10
    /\ analysis_result.before_analysis.quality_score = 50
    /\ Len(analysis_result.before_analysis.missing_data) > 0

\* C2: comparing a non-empty text with itself returns the identical-files
\* variant: identical is true, changes is empty, and no analysis, change count
\* or quality improvement is produced.
C2_IdenticalVariant ==
    (Done /\ before_content = after_content /\ before_content # <<>>) =>
        /\ analysis_result.identical = TRUE
        /\ analysis_result.changes = <<>>
        /\ DOMAIN analysis_result =
               {"identical", "message", "recommendation", "changes"}

\* C2 witness: a single blank line compared with itself
C2_Witness ==
    /\ Done
    /\ before_content = LINE_BLANK
    /\ after_content = LINE_BLANK
    /\ analysis_result.identical

\* C3: the DIMENSION_ADDED records correspond one to one to the distinct
\* dimension strings in after.dimensions and not in before.dimensions, and the
\* DIMENSION_REMOVED records to those in before and not in after.
C3_DimensionSetDifference ==
    Full =>
        LET before  == Range(analysis_result.before_analysis.dimensions)
            after   == Range(analysis_result.after_analysis.dimensions)
            added   == RecordsOfType(analysis_result.changes, "DIMENSION_ADDED")
            removed == RecordsOfType(analysis_result.changes, "DIMENSION_REMOVED")
        IN  /\ Len(added) = Cardinality(after \ before)
            /\ {c.description : c \in Range(added)} =
                   {FMT_NewDimension \o d : d \in after \ before}
            /\ Len(removed) = Cardinality(before \ after)
            /\ {c.description : c \in Range(removed)} =
                   {FMT_RemovedDimension \o d : d \in before \ after}

\* C3 witness: a dimension occurs twice in AFTER and not in BEFORE and has
\* exactly one DIMENSION_ADDED record, while another dimension is in both
C3_Witness ==
    /\ Full
    /\ LET before == analysis_result.before_analysis.dimensions
           after  == analysis_result.after_analysis.dimensions
       IN  /\ \E i, j \in 1..Len(after) :
                  /\ i < j
                  /\ after[i] = after[j]
                  /\ after[i] \notin Range(before)
                  /\ Cardinality({k \in 1..Len(analysis_result.changes) :
                         analysis_result.changes[k].description =
                             FMT_NewDimension \o after[i]}) = 1
           /\ Range(before) \cap Range(after) # {}

\* C4: swapping the two documents negates quality_improvement and swaps the
\* values reported as DIMENSION_ADDED and DIMENSION_REMOVED.
C4_SwapAntisymmetry ==
    Full =>
        \A swapped \in compare_pdfs_ml(after_content, before_content) :
            /\ swapped.quality_improvement = -analysis_result.quality_improvement
            /\ ValuesOfType(analysis_result.changes, "DIMENSION_ADDED", FMT_NewDimension)
                   = ValuesOfType(swapped.changes, "DIMENSION_REMOVED", FMT_RemovedDimension)
            /\ ValuesOfType(analysis_result.changes, "DIMENSION_REMOVED", FMT_RemovedDimension)
                   = ValuesOfType(swapped.changes, "DIMENSION_ADDED", FMT_NewDimension)

\* C4 witness: a run with a positive quality improvement, an added and a
\* removed dimension
C4_Witness ==
    /\ Full
    /\ analysis_result.quality_improvement > 0
    /\ RecordsOfType(analysis_result.changes, "DIMENSION_ADDED") # <<>>
    /\ RecordsOfType(analysis_result.changes, "DIMENSION_REMOVED") # <<>>

\* C5: exactly one MISSING_DATA_RESOLVED record, of severity GOOD and with the
\* difference of the two missing_data counts in its description, when BEFORE
\* has more missing_data entries than AFTER; no such record otherwise.
C5_MissingDataResolved ==
    Full =>
        LET before_missing == Len(analysis_result.before_analysis.missing_data)
            after_missing  == Len(analysis_result.after_analysis.missing_data)
            resolved == RecordsOfType(analysis_result.changes, "MISSING_DATA_RESOLVED")
        IN  IF before_missing > after_missing
            THEN /\ Len(resolved) = 1
                 /\ resolved[1].severity = "GOOD"
                 /\ resolved[1].description =
                        FMT_Resolved \o IntStr(before_missing - after_missing)
                            \o FMT_MissingDimensions
            ELSE resolved = <<>>

\* C5 witness: two missing-data entries resolved
C5_Witness ==
    /\ Full
    /\ Len(analysis_result.before_analysis.missing_data) = 2
    /\ Len(analysis_result.after_analysis.missing_data) = 0
    /\ \E k \in 1..Len(analysis_result.changes) :
           /\ analysis_result.changes[k].type = "MISSING_DATA_RESOLVED"
           /\ Contains(analysis_result.changes[k].description, <<"2">>)

\* C6: changes is ordered by generation step (added, removed, at most one
\* resolved, at most one markup, at most one formatting record), total_changes
\* is its length and quality_improvement is the after score minus the before
\* score.
C6_ChangesOrder ==
    Full =>
        LET changes == analysis_result.changes
        IN  /\ \A i, j \in 1..Len(changes) :
                   i < j => TypeRank(changes[i].type) <= TypeRank(changes[j].type)
            /\ \A t \in {"MISSING_DATA_RESOLVED", "MARKUP_DETECTED", "FORMATTING_CHANGE"} :
                   Len(RecordsOfType(changes, t)) <= 1
            /\ analysis_result.total_changes = Len(changes)
            /\ analysis_result.quality_improvement =
                   analysis_result.after_analysis.quality_score
                       - analysis_result.before_analysis.quality_score

\* C6 witness: a run that produces records of all five types
C6_Witness ==
    /\ Full
    /\ {c.type : c \in Range(analysis_result.changes)} =
           {"DIMENSION_ADDED", "DIMENSION_REMOVED", "MISSING_DATA_RESOLVED",
            "MARKUP_DETECTED", "FORMATTING_CHANGE"}
    /\ analysis_result.total_changes >= 6

\* C7: when compare_pdfs_ml returns the identical-files variant, analyze does
\* not call generate_engineering_checklist with it: a successful answer that
\* carries an identical analysis carries no checklist.
C7_NoChecklistForIdentical ==
    (/\ response.status = 200
     /\ "analysis" \in DOMAIN response.body
     /\ response.body.analysis.identical) =>
        "checklist" \notin DOMAIN response.body

\* C8: the checklist of a full result has exactly the five categories;
\* critical_items is non-empty, dimensions, annotations and completeness hold
\* exactly one item each, and only specifications may be empty.
C8_ChecklistShape ==
    Full =>
        /\ DOMAIN checklist =
               {"critical_items", "dimensions", "specifications", "annotations",
                "completeness"}
        /\ Len(checklist.critical_items) >= 1
        /\ Len(checklist.dimensions) = 1
        /\ Len(checklist.annotations) = 1
        /\ Len(checklist.completeness) = 1
        /\ Len(checklist.specifications) \in {0, 1}

\* C8 witness: a checklist with two critical items and no specifications item
C8_Witness ==
    /\ Full
    /\ Len(checklist.critical_items) = 2
    /\ checklist.specifications = <<>>
    /\ Len(checklist.dimensions) = 1

\* C9: critical_items holds one FAIL item 'Missing Dimension Value' per entry
\* of after.missing_data, in order and with the entry's text as details; when
\* after.missing_data is empty it holds exactly one PASS item 'All Dimensions
\* Specified'. FAIL and PASS items never occur together.
C9_CriticalItems ==
    Full =>
        LET missing == analysis_result.after_analysis.missing_data
            items   == checklist.critical_items
        IN  /\ missing # <<>> =>
                   /\ Len(items) = Len(missing)
                   /\ \A i \in 1..Len(items) :
                          /\ items[i].status = "FAIL"
                          /\ items[i].item = "Missing Dimension Value"
                          /\ items[i].details = missing[i].text
            /\ missing = <<>> =>
                   /\ Len(items) = 1
                   /\ items[1].status = "PASS"
                   /\ items[1].item = "All Dimensions Specified"
            /\ {items[i].status : i \in 1..Len(items)} \in {{"FAIL"}, {"PASS"}}

\* C9 witness: two missing-data entries with different texts, reported by two
\* FAIL items in the same order
C9_Witness ==
    /\ Full
    /\ Len(analysis_result.after_analysis.missing_data) = 2
    /\ Len(checklist.critical_items) = 2
    /\ checklist.critical_items[1].details # checklist.critical_items[2].details
    /\ checklist.critical_items[1].details =
           analysis_result.after_analysis.missing_data[1].text

\* C10: the completeness item is PASS exactly when after.quality_score >= 80
\* and WARNING otherwise; an AFTER document with no missing_data and score 85
\* has completeness PASS and a single PASS critical item.
C10_Completeness ==
    Full =>
        LET after == analysis_result.after_analysis
            item  == checklist.completeness[1]
        IN  /\ Len(checklist.completeness) = 1
            /\ item.status = "PASS" <=> after.quality_score >= 80
            /\ item.status = "WARNING" <=> after.quality_score < 80
            /\ (after.quality_score = 85 /\ after.missing_data = <<>>) =>
                   /\ item.status = "PASS"
                   /\ Len(checklist.critical_items) = 1
                   /\ checklist.critical_items[1].status = "PASS"

\* C10 witness: an AFTER document with no missing_data and score 85
C10_Witness ==
    /\ Full
    /\ analysis_result.after_analysis.quality_score = 85
    /\ analysis_result.after_analysis.missing_data = <<>>
    /\ checklist.completeness[1].status = "PASS"

\* C11: the annotations item is PASS with details '<n> changes found', n being
\* total_changes, exactly when total_changes > 0, and FAIL with details 'Files
\* appear identical or no changes made' exactly when total_changes = 0, also
\* for different documents that produce no change record.
C11_Annotations ==
    Full =>
        LET n    == analysis_result.total_changes
            item == checklist.annotations[1]
        IN  /\ Len(checklist.annotations) = 1
            /\ item.status \in {"PASS", "FAIL"}
            /\ item.status = "PASS" <=> n > 0
            /\ item.status = "FAIL" <=> n = 0
            /\ item.status = "PASS" => item.details = IntStr(n) \o FMT_ChangesFound
            /\ item.status = "FAIL" => item.details = FMT_NoChanges

\* C11 witness: two different documents without any change record
C11_Witness ==
    /\ Full
    /\ before_content # after_content
    /\ analysis_result.total_changes = 0
    /\ analysis_result.changes = <<>>
    /\ checklist.annotations[1].status = "FAIL"

\* C12: specifications holds one PASS item when AFTER has more than 5
\* specification entries and is empty otherwise, whatever BEFORE holds; the
\* dimensions item is PASS exactly when AFTER has more than 10 dimension
\* entries, else WARNING. With 12 dimensions and 6 specifications in AFTER
\* both are PASS; with 12 dimensions and no specification the specifications
\* category is empty.
C12_SpecificationsAndDimensions ==
    Full =>
        LET after == analysis_result.after_analysis
            dims  == checklist.dimensions[1]
        IN  /\ Len(after.specifications) > 5 =>
                   /\ Len(checklist.specifications) = 1
                   /\ checklist.specifications[1].status = "PASS"
            /\ Len(after.specifications) <= 5 => checklist.specifications = <<>>
            /\ dims.status = "PASS" <=> Len(after.dimensions) > 10
            /\ dims.status = "WARNING" <=> Len(after.dimensions) <= 10
            /\ (Len(after.dimensions) = 12 /\ Len(after.specifications) = 6) =>
                   /\ dims.status = "PASS"
                   /\ checklist.specifications # <<>>
            /\ (Len(after.dimensions) = 12 /\ Len(after.specifications) = 0) =>
                   /\ dims.status = "PASS"
                   /\ checklist.specifications = <<>>

\* C12 witness: scenario C, BEFORE without specification and AFTER with six
C12_Witness ==
    /\ Full
    /\ before_content = ScenarioC_before
    /\ after_content = ScenarioC_after
    /\ Len(analysis_result.before_analysis.specifications) = 0
    /\ Len(analysis_result.after_analysis.dimensions) = 12
    /\ Len(analysis_result.after_analysis.specifications) = 6
    /\ checklist.dimensions[1].status = "PASS"
    /\ Len(checklist.specifications) = 1

\* C13: compare_pdfs_ml is deterministic: every invocation on the same pair of
\* documents returns the same result, the order of the change records
\* included.
C13_Deterministic ==
    Done =>
        \A other \in compare_pdfs_ml(before_content, after_content) :
            other = analysis_result

\* the number of lines of a text that hold a non-space character
NonBlankCount(content) ==
    LET lines == SplitLines(content)
    IN  Cardinality({i \in 1..Len(lines) :
            \E j \in 1..Len(lines[i]) : lines[i][j] \notin Whitespace})

\* the two analysed texts of a full result, each with its analysis
Analysed ==
    { <<before_content, analysis_result.before_analysis>>,
      <<after_content, analysis_result.after_analysis>> }

\* C14: the analysis and the comparison never end in an error: every retained
\* line has a last token, so the missing-data rule is defined; the result has
\* every field of its variant; a document without non-blank line has
\* total_lines 0, four empty collections and quality_score 60.
C14_NoError ==
    /\ Done =>
           DOMAIN analysis_result =
               IF analysis_result.identical
               THEN {"identical", "message", "recommendation", "changes"}
               ELSE {"identical", "before_analysis", "after_analysis", "changes",
                     "total_changes", "quality_improvement"}
    /\ Full =>
           \A p \in Analysed :
               LET retained == SelectSeq(SplitLines(p[1]), IsRetained)
               IN  /\ \A i \in 1..Len(retained) : LastToken(retained[i]) # IndexError
                   /\ ~RaisesIndexError(p[1])
                   /\ DOMAIN p[2] =
                          {"total_lines", "dimensions", "specifications", "notes",
                           "missing_data", "quality_score"}
                   /\ NonBlankCount(p[1]) = 0 =>
                          /\ p[2].total_lines = 0
                          /\ p[2].dimensions = <<>>
                          /\ p[2].specifications = <<>>
                          /\ p[2].notes = <<>>
                          /\ p[2].missing_data = <<>>
                          /\ p[2].quality_score = 60

\* C14 witness: a single blank line analysed against a document whose
\* missing-data rule fired
C14_Witness ==
    /\ Full
    /\ before_content = LINE_BLANK
    /\ analysis_result.before_analysis.total_lines = 0
    /\ analysis_result.before_analysis.quality_score = 60
    /\ Len(analysis_result.after_analysis.missing_data) > 0

\* the missing-data rule of the specification on one line: a space followed by
\* "d" or "D" somewhere, and no digit in the last run of non-space characters
PrescribedMissing(line) ==
    /\ \E i \in 1..(Len(line) - 1) : line[i] = " " /\ line[i + 1] \in {"d", "D"}
    /\ LET solid == {i \in 1..Len(line) : line[i] \notin Whitespace}
           last  == CHOOSE e \in solid : \A k \in solid : k <= e
           first == CHOOSE b \in 1..last :
                        /\ \A k \in b..last : k \in solid
                        /\ b = 1 \/ (b - 1) \notin solid
       IN  solid # {} /\ \A k \in first..last : line[k] \notin Digits

\* the non-blank lines of a text that satisfy a rule, stripped, in order
PrescribedEntries(content, Rule(_)) ==
    LET lines == SplitLines(content)
        Picked(i) ==
            /\ \E j \in 1..Len(lines[i]) : lines[i][j] \notin Whitespace
            /\ Rule(lines[i])
        picked == SelectSeq(Indices(lines), Picked)
    IN  [k \in 1..Len(picked) |-> Strip(lines[picked[k]])]

\* C15: a non-blank line is in missing_data, with issue 'Missing dimension
\* value' and its stripped text, exactly when it contains ' d' or ' D' and its
\* last token has no digit; for scenario B, BEFORE has the one entry '5 d',
\* AFTER has none, the comparison has the record 'Resolved 1 missing
\* dimensions' and the after score exceeds the before score.
C15_MissingDataRule ==
    Full =>
        /\ \A p \in Analysed :
               LET texts == PrescribedEntries(p[1], PrescribedMissing)
               IN  p[2].missing_data =
                       [k \in 1..Len(texts) |->
                           [issue |-> "Missing dimension value", text |-> texts[k]]]
        /\ (before_content = ScenarioB_before /\ after_content = ScenarioB_after) =>
               /\ Len(analysis_result.before_analysis.missing_data) = 1
               /\ analysis_result.before_analysis.missing_data[1].text = LINE_5d
               /\ analysis_result.after_analysis.missing_data = <<>>
               /\ \E k \in 1..Len(analysis_result.changes) :
                      /\ analysis_result.changes[k].type = "MISSING_DATA_RESOLVED"
                      /\ analysis_result.changes[k].description =
                             FMT_Resolved \o <<"1">> \o FMT_MissingDimensions
               /\ analysis_result.after_analysis.quality_score
                      > analysis_result.before_analysis.quality_score

\* C15 witness: scenario B has been analysed and its entry resolved
C15_Witness ==
    /\ Full
    /\ before_content = ScenarioB_before
    /\ after_content = ScenarioB_after
    /\ analysis_result.quality_improvement > 0
    /\ RecordsOfType(analysis_result.changes, "MISSING_DATA_RESOLVED") # <<>>

\* C16: whitespace-only lines are dropped and total_lines counts the rest;
\* dimensions, specifications and notes hold the stripped text of every
\* retained line that satisfies their rule, in document order and with
\* repetitions kept.
C16_CollectionsKeepRepetitions ==
    Full =>
        \A p \in Analysed :
            /\ p[2].total_lines = NonBlankCount(p[1])
            /\ p[2].dimensions = PrescribedEntries(p[1], IsDimension)
            /\ p[2].specifications = PrescribedEntries(p[1], IsSpecification)
            /\ p[2].notes = PrescribedEntries(p[1], IsNote)

\* C16 witness: AFTER is one dimension line repeated eleven times, which earns
\* the dimension bonus
C16_Witness ==
    /\ Full
    /\ analysis_result.after_analysis.total_lines = 11
    /\ Len(analysis_result.after_analysis.dimensions) = 11
    /\ Cardinality(Range(analysis_result.after_analysis.dimensions)) = 1
    /\ analysis_result.after_analysis.notes = <<>>
    /\ analysis_result.after_analysis.quality_score = 75

\* the number of lines of a text, blank ones included, that hold a digit
DigitLineCount(content) ==
    LET lines == SplitLines(content)
    IN  Cardinality({i \in 1..Len(lines) : \E j \in 1..Len(lines[i]) : lines[i][j] \in Digits})

\* C17: there is exactly one FORMATTING_CHANGE record (severity INFO) when
\* AFTER has more digit-bearing lines than BEFORE and none otherwise; exactly
\* one MARKUP_DETECTED record (severity INFO) when the AFTER text contains
\* 'Bold' and the BEFORE text does not, and none otherwise.
C17_FormattingAndMarkup ==
    Full =>
        LET formatting == RecordsOfType(analysis_result.changes, "FORMATTING_CHANGE")
            markup     == RecordsOfType(analysis_result.changes, "MARKUP_DETECTED")
        IN  /\ IF DigitLineCount(after_content) > DigitLineCount(before_content)
               THEN Len(formatting) = 1 /\ formatting[1].severity = "INFO"
               ELSE formatting = <<>>
            /\ IF Contains(after_content, TOK_Bold) /\ ~Contains(before_content, TOK_Bold)
               THEN Len(markup) = 1 /\ markup[1].severity = "INFO"
               ELSE markup = <<>>

\* C17 witness: a markup record without a formatting record, between two
\* documents with the same number of digit-bearing lines
C17_Witness ==
    /\ Full
    /\ RecordsOfType(analysis_result.changes, "MARKUP_DETECTED") # <<>>
    /\ RecordsOfType(analysis_result.changes, "FORMATTING_CHANGE") = <<>>
    /\ DigitLineCount(after_content) = DigitLineCount(before_content)
    /\ DigitLineCount(after_content) > 0

\* C18: every quality_score is 50 plus the bonuses that apply, a sum of some
\* of 15, 15, 10, 10, so it lies in 50..100 and the clamp at 100 changes
\* nothing; every quality_improvement lies in -50..50.
C18_ScoreRange ==
    Full =>
        /\ \A p \in Analysed :
               LET a == p[2]
                   unclamped ==
                       50 + (IF Len(a.dimensions) > 10 THEN 15 ELSE 0)
                          + (IF Len(a.specifications) > 5 THEN 15 ELSE 0)
                          + (IF Len(a.notes) > 3 THEN 10 ELSE 0)
                          + (IF Len(a.missing_data) = 0 THEN 10 ELSE 0)
               IN  /\ a.quality_score = unclamped
                   /\ a.quality_score \in 50..100
                   /\ a.quality_score - 50 \in {0, 10, 15, 20, 25, 30, 35, 40, 50}
        /\ analysis_result.quality_improvement \in -50..50

\* C18 witness: the largest loss, from score 100 to score 50
C18_Witness ==
    /\ Full
    /\ analysis_result.before_analysis.quality_score = 100
    /\ analysis_result.after_analysis.quality_score = 50
    /\ analysis_result.quality_improvement = -50

\* the two rejections of the application
NotAuthenticatedResponse ==
    Respond(401, [success |-> FALSE, message |-> "Not authenticated"])
InvalidCredentialsResponse ==
    Respond(401, [success |-> FALSE, message |-> "Invalid credentials"])

\* C19: an upload or analyze request made while the session holds no user is
\* answered 401 'Not authenticated' and changes neither the uploaded files nor
\* the reports nor the session; a logout leaves the session without a user, and
\* a session without a user gains one only by a login that answers 200 with
\* success, so every upload or analyze after a logout is rejected until then.
C19_RejectedWithoutUser ==
    [][ /\ ("user" \notin DOMAIN session /\ (upload \/ analyze)) =>
               /\ response' = NotAuthenticatedResponse
               /\ uploads' = uploads
               /\ reports' = reports
               /\ session' = session
        /\ logout => "user" \notin DOMAIN session'
        /\ ("user" \notin DOMAIN session /\ "user" \in DOMAIN session') =>
               /\ login
               /\ response'.status = 200
               /\ response'.body.success
               /\ response'.body.user.username = session'["user"]
               /\ session'["user"] \in DOMAIN USERS
      ]_vars

\* C19 witness: a request has been rejected after a login, an upload and a
\* logout, and the file uploaded before is still the only effect
C19_Witness ==
    /\ pc = "web"
    /\ response = NotAuthenticatedResponse
    /\ session = EmptyDict
    /\ uploads # EmptyDict
    /\ reports = {}

\* C20: the session holds none of user, name and role, or all three with user
\* a key of USERS and name and role those of that entry; a login that answers
\* 401 leaves the session as it was; check_session never fails on a missing
\* name or role.
C20_SessionWellFormed ==
    /\ [](\/ session = EmptyDict
          \/ /\ DOMAIN session = {"user", "name", "role"}
             /\ session["user"] \in DOMAIN USERS
             /\ session["name"] = USERS[session["user"]].name
             /\ session["role"] = USERS[session["user"]].role)
    /\ [](response.status = 500 => response.body # [error |-> "KeyError"])
    /\ [][ (login /\ response'.status = 401) =>
               (session' = session /\ response' = InvalidCredentialsResponse) ]_vars

\* C20 witness: a login has been rejected while a user was logged in, and that
\* user is still logged in
C20_Witness ==
    /\ pc = "web"
    /\ response = InvalidCredentialsResponse
    /\ "user" \in DOMAIN session
    /\ session["name"] = USERS[session["user"]].name
====
